---- MODULE Spec2Model ----
(***************************************************************************)
(* A model of scripts/read_structs/read_structs.py: the generator make(),  *)
(* the enum property accessor that its ENUM_PROP_TEMPLATE emits, and the   *)
(* batch driver read_structs().                                            *)
(*                                                                         *)
(* Text is a sequence of tokens (strings).  Separators are kept at         *)
(* character granularity, so ":" and "::" are different texts.             *)
(***************************************************************************)
EXTENDS Integers, Sequences, FiniteSets, TLC

VARIABLES
    \* ---- generator: make() ----
    header,      \* what read_header_file returned for the header file
    made,        \* the locals of the latest make() call, "mt" its return value
    previous,    \* the locals of the make() call before that one
    clock,       \* number of make() calls so far; selects utcnow()
    \* ---- generated enum property (ENUM_PROP_TEMPLATE) at run time ----
    NAMES,       \* self.<TYPE>_NAMES, the named list of the enum
    instance,    \* self._instance, the wrapped struct
    last,        \* the latest accessor call and its outcome
    \* ---- driver: read_structs() ----
    files,       \* the batch
    parses,      \* for each input path, whether make() succeeds on it
    disk,        \* contents of each output path
    pos,         \* index of the file the loop is at
    status,      \* "running", "done" or the exception that ended the call
    reads        \* input paths opened for reading so far

genVars == <<header, made, previous, clock>>
propVars == <<NAMES, instance, last>>
drvVars == <<files, parses, disk, pos, status, reads>>
vars == <<header, made, previous, clock, NAMES, instance, last,
          files, parses, disk, pos, status, reads>>

\* ------------------------------------------------------------------ bounds
MaxStructs == 2
MaxNamespaces == 2

\* ----------------------------------------------------------------- helpers
Range(s) == {s[i] : i \in DOMAIN s}

SeqsUpTo(S, n) == UNION {[1..k -> S] : k \in 0..n}

InjectiveSeqs(S) ==
    {s \in SeqsUpTo(S, Cardinality(S)) :
        \A i, j \in DOMAIN s : i # j => s[i] # s[j]}

\* str.join: the texts of xs with sep between neighbours
RECURSIVE Join(_, _)
Join(sep, xs) ==
    IF xs = <<>> THEN <<>>
    ELSE IF Len(xs) = 1 THEN xs[1]
    ELSE xs[1] \o sep \o Join(sep, Tail(xs))

\* list concatenation of a list of lists
RECURSIVE Concat(_)
Concat(xs) == IF xs = <<>> THEN <<>> ELSE xs[1] \o Concat(Tail(xs))

Contains(text, tok) == \E i \in DOMAIN text : text[i] = tok

\* str.upper on the type names of the model
Upper(name) ==
    CASE name = "Mode" -> "MODE"
      [] name = "Kind" -> "KIND"
      [] name = "int" -> "INT"
      [] OTHER -> name

\* --------------------------------------------------- generator: make()
MaxRuns == 2

member_name == "_instance"

TypeNames == {"Mode", "int"}
VarNames == {"x", "y"}
NamespaceNames == {"foo", "bar"}

\* the enum-class declarations a header may hold
EnumDecls ==
    {<<>>, <<[name |-> "Mode", members |-> <<"A", "B">>]>>}

\* a member declaration names each of its variables once; two declarations
\* may name the same variable, which make() does not rule out
StructDecls == [typename : TypeNames, variables : InjectiveSeqs(VarNames)]

Headers ==
    [header_file : {"bar.h"},
     classname : {"Bar"},
     namespaces : SeqsUpTo(NamespaceNames, MaxNamespaces),
     enum_classes : EnumDecls,
     structs : SeqsUpTo(StructDecls, MaxStructs)]

\* datetime.datetime.utcnow().isoformat() at the t-th call
IsoFormat(t) ==
    CASE t = 1 -> "2016-01-01T00:00:00"
      [] t = 2 -> "2016-01-02T00:00:00"
      [] t = 3 -> "2016-01-03T00:00:00"
      [] OTHER -> "2016-01-04T00:00:00"

Timestamps == {IsoFormat(t) : t \in 1..4}

\* make_enums: the three values it returns
EnumClassText(enum_classes, header_file, ns, classname) ==
    Concat([i \in 1..Len(enum_classes) |->
        <<"cdef enum ", enum_classes[i].name, ":\n">>
        \o Concat([j \in 1..Len(enum_classes[i].members) |->
                      <<"    ", enum_classes[i].members[j], "\n">>])
        \o <<Upper(enum_classes[i].name), "_NAMES = (">>
        \o Join(<<", ">>, [j \in 1..Len(enum_classes[i].members) |->
                      <<enum_classes[i].members[j]>>])
        \o <<")\n">>])

EnumPyxText(enum_classes, classname) ==
    Concat([i \in 1..Len(enum_classes) |->
        <<"    ", Upper(enum_classes[i].name), "_NAMES = ",
          Upper(enum_classes[i].name), "_NAMES\n">>])

EnumTypeNames(enum_classes) ==
    {enum_classes[i].name : i \in 1..Len(enum_classes)}

make_enums(enum_classes, header_file, ns, classname) ==
    [enum_class |-> EnumClassText(enum_classes, header_file, ns, classname),
     enum_pyx |-> EnumPyxText(enum_classes, classname),
     enum_types |-> EnumTypeNames(enum_classes)]

\* line 11
namespace(namespaces) ==
    Join(<<":">>, [i \in 1..Len(namespaces) |-> <<namespaces[i]>>])

indent == <<"\n        ">>

\* line 18
fmt(s) ==
    <<s.typename, " ">>
    \o Join(<<", ">>, [i \in 1..Len(s.variables) |-> <<s.variables[i]>>])

\* lines 19-21
pyx_structs(structs) ==
    LET joined == Join(indent, [i \in 1..Len(structs) |-> fmt(structs[i])])
    IN IF joined # <<>> THEN indent \o joined ELSE joined

\* line 23
struct_definition(classname, structs) ==
    <<"    struct ", classname, ":">> \o pyx_structs(structs)

\* every declared variable entered, whatever the type of its declaration
RECURSIVE variables_to_enum_type_unchecked(_, _)
variables_to_enum_type_unchecked(structs, enum_types) ==
    IF structs = <<>> THEN [n \in {} |-> ""]
    ELSE LET s == structs[Len(structs)]
             sofar == variables_to_enum_type_unchecked(
                          SubSeq(structs, 1, Len(structs) - 1), enum_types)
         IN [n \in DOMAIN sofar \cup Range(s.variables) |->
                IF n \in Range(s.variables) THEN s.typename ELSE sofar[n]]

\* lines 26-31: a later enum-typed declaration overwrites an earlier entry
RECURSIVE variables_to_enum_type(_, _)
variables_to_enum_type(structs, enum_types) ==
    IF structs = <<>> THEN [n \in {} |-> ""]
    ELSE LET s == structs[Len(structs)]
             sofar == variables_to_enum_type(
                          SubSeq(structs, 1, Len(structs) - 1), enum_types)
         IN IF s.typename \in enum_types
            THEN [n \in DOMAIN sofar \cup Range(s.variables) |->
                     IF n \in Range(s.variables) THEN s.typename ELSE sofar[n]]
            ELSE sofar

\* lines 24, 28, 32
props(structs) == Concat([i \in 1..Len(structs) |-> structs[i].variables])

\* lines 34-36
str_format(ps, v2e) ==
    Join(<<", ">>, [i \in 1..Len(ps) |->
        <<ps[i], IF ps[i] \in DOMAIN v2e THEN "='%s'" ELSE "=%s">>])

\* line 37
variable_names(ps) ==
    Join(<<", ">>, [i \in 1..Len(ps) |-> <<"self.", ps[i]>>])

PROP_TEMPLATE(kw) ==
    <<"    property ", kw.prop, ":\n",
      "        def __get__(self):\n",
      "            return self.", kw.member_name, ".", kw.prop, "\n",
      "        def __set__(self, ", kw.typename, " x):\n",
      "            self.", kw.member_name, ".", kw.prop, " = x\n">>

ENUM_PROP_TEMPLATE(kw) ==
    <<"    property ", kw.prop, ":\n",
      "        def __get__(self):\n",
      "            return self.", kw.TYPE, "_NAMES[<int> self.",
          kw.member_name, ".", kw.prop, "]\n",
      "        def __set__(self, object x):\n",
      "            cdef uint8_t i\n",
      "            if isinstance(x, str):\n",
      "                i = self.", kw.TYPE, "_NAMES.index(x)\n",
      "            else:\n",
      "                i = <uint8_t> x\n",
      "                if i >= len(self.", kw.TYPE, "_NAMES):\n",
      "                    raise ValueError(\"Can't understand value \" + str(i))\n",
      "            self.", kw.member_name, ".", kw.prop, " = <", kw.Type, ">(i)\n">>

\* lines 45-52: the block of one member of declaration s
property_block(s, prop, v2e) ==
    IF prop \in DOMAIN v2e
    THEN ENUM_PROP_TEMPLATE([prop |-> prop, member_name |-> member_name,
                             Type |-> v2e[prop], TYPE |-> Upper(v2e[prop])])
    ELSE PROP_TEMPLATE([prop |-> prop, member_name |-> member_name,
                        typename |-> s.typename])

\* the blocks emitted from the last declaration to the first
property_blocks_reversed(structs, v2e) ==
    Concat([i \in 1..Len(structs) |->
        [j \in 1..Len(structs[Len(structs) + 1 - i].variables) |->
            property_block(structs[Len(structs) + 1 - i],
                           structs[Len(structs) + 1 - i].variables[j], v2e)]])

\* lines 43-52
property_blocks(structs, v2e) ==
    Concat([i \in 1..Len(structs) |->
        [j \in 1..Len(structs[i].variables) |->
            property_block(structs[i], structs[i].variables[j], v2e)]])

MAIN_TEMPLATE(kw) == kw.enum_class

\* the date of an isoformat timestamp, as a comment line
DateComment(ts) ==
    CASE ts = "2016-01-01T00:00:00" -> "# generated on 2016-01-01\n"
      [] ts = "2016-01-02T00:00:00" -> "# generated on 2016-01-02\n"
      [] ts = "2016-01-03T00:00:00" -> "# generated on 2016-01-03\n"
      [] OTHER -> "# generated on 2016-01-04\n"

\* the class text opening with a line that depends on the time of the call
CLASS_TEMPLATE_dated(kw) ==
    <<DateComment(kw.timestamp),
      "cdef class _", kw.classname, "(_Wrapper):\n">>
    \o kw.property_list

CLASS_TEMPLATE(kw) ==
    <<"\n", "cdef extern from \"<", kw.header_file, ">\" namespace \"">>
    \o kw.namespace \o <<"\":\n">>
    \o kw.struct_definition
    \o <<"\n", "\n",
         "cdef class _", kw.classname, "(_Wrapper):\n",
         "    cdef ", kw.classname, " ", kw.member_name, ";\n">>
    \o kw.enum_pyx
    \o <<"\n",
         "    def __cinit__(self):\n",
         "        clearStruct(self.", kw.member_name, ")\n",
         "\n",
         "    def clear(self):\n",
         "        clearStruct(self.", kw.member_name, ")\n",
         "\n",
         "    def __str__(self):\n",
         "        return \"(">>
    \o kw.str_format
    \o <<")\" % (\n", "            ">>
    \o kw.variable_names
    \o <<")\n", "\n">>
    \o kw.property_list

\* the class emitted whether or not there are properties
render_always(kw) == MAIN_TEMPLATE(kw) \o CLASS_TEMPLATE(kw)

\* lines 56-59
render(kw) ==
    IF kw.property_list # <<>>
    THEN MAIN_TEMPLATE(kw) \o CLASS_TEMPLATE(kw)
    ELSE MAIN_TEMPLATE(kw)

\* lines 8-59: the locals of make() when it returns, mt the value returned
make(hdr, timestamp) ==
    LET ns == namespace(hdr.namespaces)
        enums == make_enums(hdr.enum_classes, hdr.header_file, ns, hdr.classname)
        v2e == variables_to_enum_type(hdr.structs, enums.enum_types)
        ps == props(hdr.structs)
        blocks == property_blocks(hdr.structs, v2e)
        kw == [header_file |-> hdr.header_file,
               classname |-> hdr.classname,
               namespace |-> ns,
               member_name |-> member_name,
               enum_class |-> enums.enum_class,
               enum_pyx |-> enums.enum_pyx,
               enum_types |-> enums.enum_types,
               struct_definition |-> struct_definition(hdr.classname, hdr.structs),
               variables_to_enum_type |-> v2e,
               props |-> ps,
               str_format |-> str_format(ps, v2e),
               variable_names |-> variable_names(ps),
               blocks |-> blocks,
               property_list |-> Join(<<"\n">>, blocks),
               timestamp |-> timestamp]
    IN kw @@ [mt |-> render(kw)]

NoCall == [mt |-> <<>>]

\* one call of make() on the header, at the next reading of the clock
Generate ==
    /\ clock < MaxRuns
    /\ clock' = clock + 1
    /\ made' = make(header, IsoFormat(clock + 1))
    /\ previous' = made
    /\ UNCHANGED <<header, propVars, drvVars>>

\* ------------------------------- the generated enum property at run time
MaxEnumSize == 3
MaxPlain == 1

\* cdef uint8_t i: the number of values of the index variable
Uint8Range == 256

PyInt(v) == [type |-> "int", v |-> v]
\* the string that names member k of the enum; no member when k is no index
PyStr(k) == [type |-> "str", v |-> k]
None == [type |-> "None", v |-> 0]

Ok(v) == [kind |-> "ok", value |-> v]
Raise(kind) == [kind |-> kind, value |-> None]

\* the named list of an enum with n members, in declaration order
NamedList(n) == [i \in 1..n |-> PyStr(i - 1)]

EnumSizes == (0..MaxEnumSize) \cup {Uint8Range - 1, Uint8Range, Uint8Range + 1}

Magnitudes ==
    (0..(MaxEnumSize + 1)) \cup ((Uint8Range - 2)..(Uint8Range + 2))
    \cup {2 * Uint8Range}

IntInputs == {PyInt(v) : v \in Magnitudes \cup {-1}}
StrInputs == {PyStr(k) : k \in Magnitudes \cup {-1}}

\* the conversion as a C cast between integer types: the value modulo 2^8
ToUint8_truncating(v) == Ok(v % Uint8Range)

\* conversion of a Python integer to uint8_t (the cast of line 101, the
\* assignment of line 99): Cython converts a Python object to a C integer
\* type with a range check, in a cast as in an assignment, and a value
\* outside the type raises OverflowError
ToUint8(v) ==
    IF 0 <= v /\ v < Uint8Range THEN Ok(v) ELSE Raise("OverflowError")

\* list.index: the first position holding x, ValueError when there is none
Index(names, x) ==
    IF \E i \in 1..Len(names) : names[i] = x
    THEN Ok((CHOOSE i \in 1..Len(names) :
                /\ names[i] = x
                /\ \A j \in 1..(i - 1) : names[j] # x) - 1)
    ELSE Raise("ValueError")

\* clearStruct: every member zero
clearStruct == [mode |-> 0, count |-> 0]

\* lines 94-95: __get__ of the enum property
EnumGet(names, inst) ==
    IF inst.mode < Len(names)
    THEN Ok(names[inst.mode + 1])
    ELSE Raise("IndexError")

\* the member assigned before the range check of line 102
EnumSet_store_first(names, inst, x) ==
    LET found == Index(names, x)
        i == IF x.type = "str"
             THEN (IF found.kind = "ok" THEN ToUint8(found.value) ELSE found)
             ELSE ToUint8(x.v)
    IN IF i.kind # "ok"
       THEN [result |-> i, inst |-> inst]
       ELSE IF x.type # "str" /\ i.value >= Len(names)
       THEN [result |-> Raise("ValueError"),
             inst |-> [inst EXCEPT !.mode = i.value]]
       ELSE [result |-> Ok(None), inst |-> [inst EXCEPT !.mode = i.value]]

\* lines 96-104: __set__ of the enum property; what it raises, and the
\* struct afterwards
EnumSet(names, inst, x) ==
    LET found == Index(names, x)
        i == IF x.type = "str"
             THEN (IF found.kind = "ok" THEN ToUint8(found.value) ELSE found)
             ELSE ToUint8(x.v)
    IN IF i.kind # "ok"
       THEN [result |-> i, inst |-> inst]
       ELSE IF x.type # "str" /\ i.value >= Len(names)
       THEN [result |-> Raise("ValueError"), inst |-> inst]
       ELSE [result |-> Ok(None), inst |-> [inst EXCEPT !.mode = i.value]]

NoAccess == [op |-> "none", arg |-> None, result |-> Ok(None)]

SetEnum(x) ==
    LET r == EnumSet(NAMES, instance, x)
    IN /\ instance' = r.inst
       /\ last' = [op |-> "set", arg |-> x, result |-> r.result]
       /\ UNCHANGED <<NAMES, genVars, drvVars>>

GetEnum ==
    /\ last' = [op |-> "get", arg |-> None, result |-> EnumGet(NAMES, instance)]
    /\ UNCHANGED <<NAMES, instance, genVars, drvVars>>

\* lines 88-89: __set__ of a plain property of C type int
SetPlain(v) ==
    /\ instance' = [instance EXCEPT !.count = v]
    /\ last' = [op |-> "set_plain", arg |-> PyInt(v), result |-> Ok(None)]
    /\ UNCHANGED <<NAMES, genVars, drvVars>>

\* lines 75-76
Clear ==
    /\ instance' = clearStruct
    /\ last' = [op |-> "clear", arg |-> None, result |-> Ok(None)]
    /\ UNCHANGED <<NAMES, genVars, drvVars>>

\* ------------------------------------------------ driver: read_structs()
MaxFiles == 3

\* paths, one token per character that matters
Paths ==
    {<<"a", ".", "h">>,            \* a.h
     <<"d", "/", "b", ".", "h">>,  \* d/b.h
     <<"a", ".", "c">>,            \* a.c
     <<"a", "h">>}                 \* ah

\* str.endswith
endswith(f, suffix) ==
    /\ Len(f) >= Len(suffix)
    /\ SubSeq(f, Len(f) - Len(suffix) + 1, Len(f)) = suffix

\* the position of the last tok in f, 0 when there is none
LastIndexOf(f, tok) ==
    IF \E i \in 1..Len(f) : f[i] = tok
    THEN CHOOSE i \in 1..Len(f) :
            f[i] = tok /\ \A j \in (i + 1)..Len(f) : f[j] # tok
    ELSE 0

\* os.path.splitext(f)[0]: f without the extension of its last component
splitext0(f) ==
    LET dot == LastIndexOf(f, ".")
        sep == LastIndexOf(f, "/")
    IN IF dot > sep + 1 THEN SubSeq(f, 1, dot - 1) ELSE f

\* os.path.split: the directory and the last component
split(f) ==
    LET sep == LastIndexOf(f, "/")
    IN [base |-> SubSeq(f, 1, sep - 1), fname |-> SubSeq(f, sep + 1, Len(f))]

\* os.path.join
join(base, name) == IF base = <<>> THEN name ELSE base \o <<"/">> \o name

\* lines 111-112
outfile(f) ==
    LET parts == split(splitext0(f))
    IN join(parts.base, <<"_">> \o parts.fname \o <<".", "pyx">>)

HeaderPaths == {f \in Paths : endswith(f, <<".", "h">>)}
OutPaths == {outfile(f) : f \in Paths}

Absent == [state |-> "absent", of |-> <<>>]
Old == [state |-> "old", of |-> <<>>]
Truncated == [state |-> "truncated", of |-> <<>>]
\* the text make(f, template) returned, written in full
Written(f) == [state |-> "written", of |-> f]

AtFile == status = "running" /\ pos <= Len(files)

\* a file that is no header skipped, and the loop going on
AssertSkips ==
    /\ AtFile
    /\ ~endswith(files[pos], <<".", "h">>)
    /\ pos' = pos + 1
    /\ UNCHANGED <<files, parses, disk, status, reads, genVars, propVars>>

\* line 109 fails
AssertFails ==
    /\ AtFile
    /\ ~endswith(files[pos], <<".", "h">>)
    /\ status' = "AssertionError"
    /\ UNCHANGED <<files, parses, disk, pos, reads, genVars, propVars>>

\* the output opened for writing before make() is called
MakeFailsAfterOpen ==
    /\ AtFile
    /\ endswith(files[pos], <<".", "h">>)
    /\ ~parses[files[pos]]
    /\ reads' = reads \cup {files[pos]}
    /\ disk' = [disk EXCEPT ![outfile(files[pos])] = Truncated]
    /\ status' = "ParseError"
    /\ UNCHANGED <<files, parses, pos, genVars, propVars>>

\* line 110 raises: read_header_file or make_enums rejects the header
MakeFails ==
    /\ AtFile
    /\ endswith(files[pos], <<".", "h">>)
    /\ ~parses[files[pos]]
    /\ reads' = reads \cup {files[pos]}
    /\ status' = "ParseError"
    /\ UNCHANGED <<files, parses, disk, pos, genVars, propVars>>

\* lines 109-113 run through
WriteFile ==
    /\ AtFile
    /\ endswith(files[pos], <<".", "h">>)
    /\ parses[files[pos]]
    /\ reads' = reads \cup {files[pos]}
    /\ disk' = [disk EXCEPT ![outfile(files[pos])] = Written(files[pos])]
    /\ pos' = pos + 1
    /\ UNCHANGED <<files, parses, status, genVars, propVars>>

\* line 113 raises: open() fails and leaves the path alone, or write() fails
\* after open() has truncated it
WriteFails ==
    /\ AtFile
    /\ endswith(files[pos], <<".", "h">>)
    /\ parses[files[pos]]
    /\ reads' = reads \cup {files[pos]}
    /\ \/ disk' = disk
       \/ disk' = [disk EXCEPT ![outfile(files[pos])] = Truncated]
    /\ status' = "OSError"
    /\ UNCHANGED <<files, parses, pos, genVars, propVars>>

\* the loop of line 108 is exhausted
Return ==
    /\ status = "running"
    /\ pos > Len(files)
    /\ status' = "done"
    /\ UNCHANGED <<files, parses, disk, pos, reads, genVars, propVars>>

\* -------------------------------------------------------- specifications
NoHeader ==
    [header_file |-> "bar.h", classname |-> "Bar", namespaces |-> <<>>,
     enum_classes |-> <<>>, structs |-> <<>>]

\* make() called on one header, up to MaxRuns times
InitGen ==
    /\ header \in Headers
    /\ made = NoCall
    /\ previous = NoCall
    /\ clock = 0
    /\ NAMES = <<>>
    /\ instance = clearStruct
    /\ last = NoAccess
    /\ files = <<>>
    /\ parses = [f \in HeaderPaths |-> TRUE]
    /\ disk = [o \in OutPaths |-> Absent]
    /\ pos = 1
    /\ status = "done"
    /\ reads = {}

SpecGen == InitGen /\ [][Generate]_vars

\* a wrapper object right after __cinit__, and calls of its accessors
InitProp ==
    /\ header = NoHeader
    /\ made = NoCall
    /\ previous = NoCall
    /\ clock = 0
    /\ NAMES \in {NamedList(n) : n \in EnumSizes}
    /\ instance = clearStruct
    /\ last = NoAccess
    /\ files = <<>>
    /\ parses = [f \in HeaderPaths |-> TRUE]
    /\ disk = [o \in OutPaths |-> Absent]
    /\ pos = 1
    /\ status = "done"
    /\ reads = {}

NextProp ==
    \/ \E x \in IntInputs \cup StrInputs : SetEnum(x)
    \/ GetEnum
    \/ \E v \in 0..MaxPlain : SetPlain(v)
    \/ Clear

SpecProp == InitProp /\ [][NextProp]_vars

\* one call of read_structs() on a batch; an output path holds nothing or
\* the output of an earlier run
InitDrv ==
    /\ header = NoHeader
    /\ made = NoCall
    /\ previous = NoCall
    /\ clock = 0
    /\ NAMES = <<>>
    /\ instance = clearStruct
    /\ last = NoAccess
    /\ files \in SeqsUpTo(Paths, MaxFiles)
    /\ parses \in [HeaderPaths -> BOOLEAN]
    /\ disk \in [OutPaths -> {Absent, Old}]
    /\ pos = 1
    /\ status = "running"
    /\ reads = {}

NextDrv ==
    \/ AssertFails
    \/ MakeFails
    \/ WriteFile
    \/ WriteFails
    \/ Return

SpecDrv == InitDrv /\ [][NextDrv]_vars

\* ------------------------------------------------- claims about make()

\* the member names of a header in declaration order: declaration by
\* declaration, and within each in the order written
RECURSIVE DeclaredOrder(_)
DeclaredOrder(structs) ==
    IF structs = <<>> THEN <<>>
    ELSE structs[1].variables \o DeclaredOrder(Tail(structs))

Positions(text) == [i \in 1..Len(text) |-> i]

\* the tokens of text that directly follow a token tok
Following(text, tok) ==
    LET at == SelectSeq(Positions(text),
                        LAMBDA i : i < Len(text) /\ text[i] = tok)
    IN [k \in 1..Len(at) |-> text[at[k] + 1]]

Placeholders == {"=%s", "='%s'"}

\* the names of the name=... entries of a format string
FormatNames(text) ==
    LET at == SelectSeq(Positions(text),
                        LAMBDA i : i > 1 /\ text[i] \in Placeholders)
    IN [k \in 1..Len(at) |-> text[at[k] - 1]]

CountOf(text, toks) == Len(SelectSeq(text, LAMBDA t : t \in toks))

\* C1: the property blocks of the emitted text, the name=... entries of its
\* format string and the self.<name> arguments each follow the member names
\* in declaration order (declaration by declaration, member by member), and
\* there are as many placeholders as arguments.
C1_OrderPreservation ==
    clock > 0 =>
        LET declared == DeclaredOrder(header.structs)
        IN /\ Following(made.mt, "    property ") = declared
           /\ FormatNames(made.mt) = declared
           /\ Following(made.mt, "self.") = declared
           /\ FormatNames(made.str_format) = declared
           /\ Following(made.variable_names, "self.") = declared
           /\ CountOf(made.str_format, Placeholders)
                  = CountOf(made.variable_names, {"self."})

\* two declarations of two members each, the second not in name order
C1_Witness ==
    /\ clock > 0
    /\ Len(header.structs) = 2
    /\ header.structs[1].variables = <<"y", "x">>
    /\ header.structs[2].variables = <<"x", "y">>
    /\ Len(made.blocks) = 4

MemberCount == Len(DeclaredOrder(header.structs))

\* C4: with no member variable at all the output is exactly the enum
\* declaration text, without struct mirror and without wrapper class; with
\* at least one member variable the wrapper class is emitted.
C4_EmptyPropertyOmission ==
    clock > 0 =>
        /\ MemberCount = 0 =>
              /\ made.mt = EnumClassText(header.enum_classes, header.header_file,
                                         made.namespace, header.classname)
              /\ ~Contains(made.mt, "    struct ")
              /\ ~Contains(made.mt, "cdef class _")
        /\ MemberCount > 0 =>
              /\ Contains(made.mt, "    struct ")
              /\ Contains(made.mt, "cdef class _")

\* a header with an enum and declarations that name no member
C4_Witness ==
    /\ clock > 0
    /\ header.enum_classes # <<>>
    /\ Len(header.structs) = 2
    /\ MemberCount = 0
    /\ made.mt # <<>>

\* the text with its timestamp field taken out
MaskTimestamp(text) == SelectSeq(text, LAMBDA t : t \notin Timestamps)

\* C7: two calls of make() on the same header at different times return the
\* same text once the timestamp field is left out.
C7_Determinism ==
    clock >= 2 => MaskTimestamp(made.mt) = MaskTimestamp(previous.mt)

\* two calls at different times on a header that yields the wrapper class
C7_Witness ==
    /\ clock >= 2
    /\ made.timestamp # previous.timestamp
    /\ Contains(made.mt, "cdef class _")
    /\ header.namespaces # <<>>

\* C8: a non-empty namespace sequence is emitted joined with "::".
C8_NamespaceScopeSeparator ==
    (clock > 0 /\ header.namespaces # <<>>) =>
        made.namespace
            = Join(<<":", ":">>, [i \in 1..Len(header.namespaces) |->
                                      <<header.namespaces[i]>>])

\* the index in the block list of member j of declaration i
BlockIndex(i, j) == Len(DeclaredOrder(SubSeq(header.structs, 1, i - 1))) + j

\* the block the claim expects for member v of declaration s
BlockByDeclaration(s, v) ==
    IF s.typename \in EnumTypeNames(header.enum_classes)
    THEN ENUM_PROP_TEMPLATE([prop |-> v, member_name |-> "_instance",
                             Type |-> s.typename, TYPE |-> Upper(s.typename)])
    ELSE PROP_TEMPLATE([prop |-> v, member_name |-> "_instance",
                        typename |-> s.typename])

\* no other declaration of the header names member j of declaration i
NamedOnce(i, j) ==
    \A k \in 1..Len(header.structs) :
        k # i => header.structs[i].variables[j] \notin Range(header.structs[k].variables)

C2_BoundsEnforcement ==
    [][(last'.op = "set" /\ vars' # vars) =>
          /\ (last'.arg.type = "int" /\ last'.arg.v >= Len(NAMES)) =>
                /\ last'.result.kind \in {"ValueError", "OverflowError"}
                /\ instance' = instance
          /\ (last'.arg.type = "str" /\ last'.arg \notin Range(NAMES)) =>
                /\ last'.result.kind = "ValueError"
                /\ instance' = instance]_vars

\* a multiple of 2^8 refused although the list has members and the member
\* holds an earlier value
C2_Witness ==
    /\ last.op = "set"
    /\ last.arg = PyInt(2 * Uint8Range)
    /\ last.result.kind # "ok"
    /\ Len(NAMES) > 1
    /\ instance.mode = 1

IsIndex(x) == x.type = "int" /\ 0 <= x.v /\ x.v < Len(NAMES)
IsName(x) == x.type = "str" /\ x \in Range(NAMES)

\* C3: a get that follows setting the property to the name of a member, or
\* to the index of a member, finds the set accepted and returns that
\* member's name.
C3_RoundTrip ==
    [][(GetEnum /\ last.op = "set") =>
          /\ IsName(last.arg) =>
                (last.result.kind = "ok" /\ last'.result = Ok(last.arg))
          /\ IsIndex(last.arg) =>
                (last.result.kind = "ok"
                 /\ last'.result = Ok(NAMES[last.arg.v + 1]))]_vars

\* C10: a set of the enum property that raises leaves every member of the
\* struct as it was, and a get returns what it returned before.
C10_FailedSetFrame ==
    [][(last'.op = "set" /\ vars' # vars /\ last'.result.kind # "ok") =>
          /\ instance' = instance
          /\ EnumGet(NAMES', instance') = EnumGet(NAMES, instance)]_vars

\* an integer in uint8_t range but past the list refused, both members
\* holding values set before
C10_Witness ==
    /\ last.op = "set"
    /\ last.arg.type = "int"
    /\ last.arg.v < Uint8Range
    /\ last.result.kind = "ValueError"
    /\ instance.mode = 2
    /\ instance.count = 1

\* ------------------------------------------ claims about read_structs()

BadNames == {k \in 1..Len(files) : ~endswith(files[k], <<".", "h">>)}
FirstBad == CHOOSE k \in BadNames : \A j \in BadNames : k <= j
Earlier(k) == {files[j] : j \in 1..(k - 1)}

\* C5: with the first file name that does not end in ".h" at position k, the
\* call never gets past k and never returns normally; file k and the files
\* after it are neither read nor written; when the files before k are
\* processed without error the call ends with the assertion error at k, and
\* then the outputs of all files before k are on disk.
C5_FirstMalformedName ==
    BadNames # {} =>
        /\ pos <= FirstBad
        /\ status # "done"
        /\ reads \subseteq Earlier(FirstBad)
        /\ \A o \in OutPaths :
              disk[o].state = "written" => disk[o].of \in Earlier(FirstBad)
        /\ disk[outfile(files[FirstBad])].of # files[FirstBad]
        /\ status = "AssertionError" =>
              /\ pos = FirstBad
              /\ \A j \in 1..(pos - 1) :
                    /\ files[j] \in reads
                    /\ disk[outfile(files[j])] = Written(files[j])
        /\ status = "ParseError" => (pos < FirstBad /\ ~parses[files[pos]])
        /\ status = "OSError" => (pos < FirstBad /\ parses[files[pos]])
        /\ (status # "running" /\ \A j \in 1..(FirstBad - 1) : parses[files[j]])
              => status \in {"AssertionError", "OSError"}

\* the assertion fails at the second of three files, the first one written
C5_Witness ==
    /\ status = "AssertionError"
    /\ pos = 2
    /\ Len(files) = 3
    /\ endswith(files[3], <<".", "h">>)
    /\ disk[outfile(files[1])] = Written(files[1])
    /\ disk[outfile(files[3])].state # "written"

\* C6: the output path of a file whose header fails to parse is never
\* opened: no step of the call changes what it holds.
C6_NoPartialOutput ==
    [][\A f \in HeaderPaths :
          ~parses[f] => disk'[outfile(f)] = disk[outfile(f)]]_vars

\* make() has failed on the second file, whose output path still holds the
\* output of an earlier run
C6_Witness ==
    /\ status = "ParseError"
    /\ pos = 2
    /\ disk[outfile(files[pos])] = Old
    /\ disk[outfile(files[1])] = Written(files[1])

====
